---- MODULE Spec2Model ----
(***************************************************************************)
(* A model of the joycon-sys codec layer: the tag wrapper RawId<Id>, the   *)
(* frames generated by raw_enum!, the SPI transaction codec and the        *)
(* bit-packed stick calibration format.                                    *)
(*                                                                         *)
(* Each component has its own specification (SpecTag, SpecFrame, SpecSPI,  *)
(* SpecRange, SpecPack, SpecStick, SpecUser, SpecColor, SpecLE); the       *)
(* variables of the other components stay idle.                            *)
(***************************************************************************)
EXTENDS Integers, Sequences, FiniteSets

VARIABLES
    \* ---- tag wrapper (common.rs) ----
    tyid,       \* the enumeration Id of the RawId<Id> at hand
    rawid,      \* the RawId: its one byte (field .0)
    tagsrc,     \* what the RawId was built from: a byte (new) or an id (From<Id>)
    tagres,     \* the Option<Id> returned by the last try_into
    tagop,      \* the last tag operation
    \* ---- raw_enum! frame (lib.rs) ----
    frame,      \* the $struct at hand
    view,       \* the $name (decoded view) at hand, or NoView
    res,        \* the value returned by the last frame operation
    op,         \* the last frame operation
    \* ---- SPI transaction codec (spi.rs) ----
    payload,    \* the SPI payload value at hand, or NoPayload
    spiframe,   \* the SPI frame at hand: a read result, a read or a write request
    range,      \* the SPIRange at hand
    conv,       \* what the last SPI operation returned
    spiop,      \* the last SPI operation
    \* ---- stick coordinate packing (spi.rs) ----
    coord,      \* the (x, y) pair at hand
    packed,     \* the three packed bytes at hand
    unpacked,   \* the (x, y) pair the last decoder call returned
    packop,     \* the last packing operation
    \* ---- stick calibrations (spi.rs) ----
    stick,      \* the Left/RightStickCalibration at hand: its nine bytes
    stickres,   \* what max(), center() and min() returned, once called
    \* ---- user calibration wrappers (spi.rs) ----
    ucal,       \* the user calibration wrapper at hand: magic and calibration
    ucalres,    \* the last operation on the wrapper and what it returned
    uhist,      \* the calls made on the wrapper so far, as far as they matter
    \* ---- colors (spi.rs) ----
    colstr,     \* the string handed to Color::from_str
    colres,     \* what from_str returned, and the formatted color
    \* ---- little-endian scalars (common.rs) ----
    leval,      \* the integer or the wrapper at hand
    leres,      \* what the last conversion returned
    \* ---- all components ----
    aborted     \* TRUE once an operation has panicked

tagVars   == <<tyid, rawid, tagsrc, tagres, tagop>>
frameVars == <<frame, view, res, op>>
spiVars   == <<payload, spiframe, range, conv, spiop>>
packVars  == <<coord, packed, unpacked, packop>>
stickVars == <<stick, stickres>>
userVars  == <<ucal, ucalres, uhist>>
colorVars == <<colstr, colres>>
leVars    == <<leval, leres>>
vars      == <<tagVars, frameVars, spiVars, packVars, stickVars, userVars,
               colorVars, leVars, aborted>>

notTag    == <<frameVars, spiVars, packVars, stickVars, userVars, colorVars, leVars>>
notFrame  == <<tagVars, spiVars, packVars, stickVars, userVars, colorVars, leVars>>
notSpi    == <<tagVars, frameVars, packVars, stickVars, userVars, colorVars, leVars>>
notPack   == <<tagVars, frameVars, spiVars, stickVars, userVars, colorVars, leVars>>
notStick  == <<tagVars, frameVars, spiVars, packVars, userVars, colorVars, leVars>>
notUser   == <<tagVars, frameVars, spiVars, packVars, stickVars, colorVars, leVars>>
notColor  == <<tagVars, frameVars, spiVars, packVars, stickVars, userVars, leVars>>
notLE     == <<tagVars, frameVars, spiVars, packVars, stickVars, userVars, colorVars>>

(***************************************************************************)
(* Bounds of the model.                                                    *)
(***************************************************************************)
\* header fields and payload bytes of the frames range over 0..MaxHeader and
\* 0..MaxPayloadByte
MaxHeader == 1
MaxPayloadByte == 1
\* size in bytes of the largest payload variant of the modelled frame
UnionSize == 2

Byte == 0..255

(***************************************************************************)
(* Option<T>                                                               *)
(***************************************************************************)
None == [some |-> FALSE, val |-> "none"]
Some(v) == [some |-> TRUE, val |-> v]

(***************************************************************************)
(* The identifier enumerations, in declaration order.                      *)
(***************************************************************************)
InputReportId ==
    << [name |-> "Normal",            disc |-> 63],
       [name |-> "StandardAndSubcmd", disc |-> 33],
       [name |-> "MCUFwUpdate",       disc |-> 35],
       [name |-> "StandardFull",      disc |-> 48],
       [name |-> "StandardFullMCU",   disc |-> 49] >>

SubcommandId ==
    << [name |-> "GetOnlyControllerState",       disc |-> 0],
       [name |-> "BluetoothManualPairing",       disc |-> 1],
       [name |-> "RequestDeviceInfo",            disc |-> 2],
       [name |-> "SetInputReportMode",           disc |-> 3],
       [name |-> "GetTriggerButtonsElapsedTime", disc |-> 4],
       [name |-> "SetShipmentMode",              disc |-> 8],
       [name |-> "SPIRead",                      disc |-> 16],
       [name |-> "SPIWrite",                     disc |-> 17],
       [name |-> "SetMCUConf",                   disc |-> 33],
       [name |-> "SetMCUState",                  disc |-> 34],
       [name |-> "SetUnknownData",               disc |-> 36],
       [name |-> "SetPlayerLights",              disc |-> 48],
       [name |-> "SetHomeLight",                 disc |-> 56],
       [name |-> "SetIMUMode",                   disc |-> 64],
       [name |-> "SetIMUSens",                   disc |-> 65],
       [name |-> "EnableVibration",              disc |-> 72],
       [name |-> "MaybeAccessory",               disc |-> 88],
       [name |-> "Unknown0x59",                  disc |-> 89],
       [name |-> "Unknown0x5a",                  disc |-> 90],
       [name |-> "Unknown0x5b",                  disc |-> 91],
       [name |-> "Unknown0x5c",                  disc |-> 92] >>

\* input::UseSPIColors, the flag stored at RANGE_CONTROLLER_COLOR_USE_SPI.  Its
\* declaration lies outside the sources at hand: it is taken to be an
\* enumeration of a few small one-byte values, so that the bytes above them
\* are the value of none of its cases
UseSPIColors ==
    << [name |-> "No",            disc |-> 0],
       [name |-> "WithoutGrip",   disc |-> 1],
       [name |-> "IncludingGrip", disc |-> 2] >>

EnumNames == {"InputReportId", "SubcommandId"}

Enum(ty) ==
    CASE ty = "InputReportId" -> InputReportId
      [] ty = "SubcommandId"  -> SubcommandId
      [] ty = "UseSPIColors"  -> UseSPIColors

Ids(ty) == {Enum(ty)[k].name : k \in 1..Len(Enum(ty))}

\* the position of an id in its enumeration
IndexOf(ty, id) == CHOOSE k \in 1..Len(Enum(ty)) : Enum(ty)[k].name = id

\* the discriminant of an id: `id as i64`
DiscOf(ty, id) == Enum(ty)[IndexOf(ty, id)].disc

(***************************************************************************)
(* #[derive(FromPrimitive, ToPrimitive)]                                   *)
(***************************************************************************)
\* the derived from_*: compare n with each variant's discriminant in turn
RECURSIVE from_scan(_, _, _)
from_scan(ty, n, k) ==
    IF k > Len(Enum(ty)) THEN None
    ELSE IF Enum(ty)[k].disc = n THEN Some(Enum(ty)[k].name)
    ELSE from_scan(ty, n, k + 1)

\* a plausible slip: the first variant of the enumeration is never matched
from_u8_skips_first(ty, n) == from_scan(ty, n, 2)

from_u8(ty, n) == from_scan(ty, n, 1)

\* the derived to_u8: the discriminant, when it fits in a u8
to_u8(ty, id) ==
    LET d == DiscOf(ty, id) IN
    IF d \in Byte THEN Some(d) ELSE None

(***************************************************************************)
(* RawId<Id>                                                               *)
(***************************************************************************)
RawId_new(id) == id

RawId_try_into(ty, self) == from_u8(ty, self)

\* From<Id> for RawId<Id>: to_u8().expect("always one byte")
RawId_from(ty, id) ==
    LET b == to_u8(ty, id) IN
    IF b.some THEN [panic |-> FALSE, val |-> b.val]
    ELSE [panic |-> TRUE, val |-> 0]

\* PartialEq<Id> for RawId<Id>: from_u8(self.0).expect(..) == *other
RawId_eq(ty, self, other) ==
    LET r == from_u8(ty, self) IN
    IF r.some THEN [panic |-> FALSE, val |-> (r.val = other)]
    ELSE [panic |-> TRUE, val |-> FALSE]

(***************************************************************************)
(* The tag wrapper as a state machine.                                     *)
(***************************************************************************)
\* RawId::new(b)
TagNew(b) ==
    /\ ~aborted
    /\ rawid' = RawId_new(b)
    /\ tagsrc' = [kind |-> "byte", val |-> b]
    /\ tagres' = None
    /\ tagop' = "new"
    /\ UNCHANGED <<tyid, aborted, notTag>>

\* RawId::from(id)
TagFrom(id) ==
    /\ ~aborted
    /\ LET r == RawId_from(tyid, id) IN
         /\ aborted' = r.panic
         /\ rawid' = IF r.panic THEN rawid ELSE r.val
    /\ tagsrc' = [kind |-> "id", val |-> id]
    /\ tagres' = None
    /\ tagop' = "from"
    /\ UNCHANGED <<tyid, notTag>>

\* rawid.try_into(): takes the (Copy) RawId by value and leaves it as it is
TagTryInto ==
    /\ ~aborted
    /\ tagop \in {"new", "from", "default"}
    /\ tagres' = RawId_try_into(tyid, rawid)
    /\ tagop' = "try_into"
    /\ UNCHANGED <<tyid, rawid, tagsrc, aborted, notTag>>

TagNext ==
    \/ \E b \in Byte : TagNew(b)
    \/ \E id \in Ids(tyid) : TagFrom(id)
    \/ TagTryInto

(***************************************************************************)
(* A frame generated by raw_enum!, instantiated with                       *)
(*   #[pre_id pre: u8] #[id: InputReportId] #[post_id post: u8]            *)
(* and one payload variant per identifier.  Variant k of the enumeration   *)
(* carries a payload of VarSize bytes; the union (the payload region) has  *)
(* the size of the largest one.                                            *)
(***************************************************************************)
FrameTy == "InputReportId"

VarSize(id) == 1 + (IndexOf(FrameTy, id) % UnionSize)

PayloadByte == 0..MaxPayloadByte
Header == 0..MaxHeader

\* every value of $struct: a packed record of plain bytes
Frames ==
    [pre : Header, id : Byte, post : Header, u : [1..UnionSize -> PayloadByte]]

\* every value of $name
Views ==
    UNION { [id : {i}, data : [1..VarSize(i) -> PayloadByte]] : i \in Ids(FrameTy) }

NoView == [id |-> "none", data |-> <<>>]
NoFrame == [pre |-> 0, id |-> -1, post |-> 0, u |-> <<>>]

\* unsafe { x.u.$varname }: the first size_of::<$var>() bytes of the union
ReadVar(u, id) == [k \in 1..VarSize(id) |-> u[k]]

\* a plausible slip: the variant is written at the end of the union
MakeUnion_at_end(data, tail) ==
    [k \in 1..UnionSize |-> IF k <= Len(tail) THEN tail[k] ELSE data[k - Len(tail)]]

\* $union { $varname: data }: the bytes past the variant are not initialised
\* and read as whatever `tail` holds
MakeUnion(data, tail) ==
    [k \in 1..UnionSize |-> IF k <= Len(data) THEN data[k] ELSE tail[k - Len(data)]]

Tails(id) == [1..(UnionSize - VarSize(id)) -> PayloadByte]

\* $struct::new(): mem::zeroed()
FrameZeroed == [pre |-> 0, id |-> 0, post |-> 0, u |-> [k \in 1..UnionSize |-> 0]]

\* a plausible slip: the error value is a fresh frame, not the one passed in
TryFrom_fresh_error(x) ==
    LET t == RawId_try_into(FrameTy, x.id) IN
    IF t.some
    THEN [ok |-> TRUE, view |-> [id |-> t.val, data |-> ReadVar(x.u, t.val)],
          frame |-> NoFrame]
    ELSE [ok |-> FALSE, view |-> NoView, frame |-> FrameZeroed]

\* TryFrom<$struct> for $name
TryFrom(x) ==
    LET t == RawId_try_into(FrameTy, x.id) IN
    IF t.some
    THEN [ok |-> TRUE, view |-> [id |-> t.val, data |-> ReadVar(x.u, t.val)],
          frame |-> NoFrame]
    ELSE [ok |-> FALSE, view |-> NoView, frame |-> x]

\* a plausible slip: the post-tag header is left holding a stale byte
From_stale_post(x, tail) ==
    LET id == RawId_from(FrameTy, x.id) IN
    [panic |-> id.panic,
     frame |-> [pre |-> 0, id |-> id.val, post |-> 1, u |-> MakeUnion(x.data, tail)]]

\* From<$name> for $struct
From(x, tail) ==
    LET id == RawId_from(FrameTy, x.id) IN
    [panic |-> id.panic,
     frame |-> [pre |-> 0, id |-> id.val, post |-> 0, u |-> MakeUnion(x.data, tail)]]

\* $struct::$varname(&self) and $struct::$varnamemut(&mut self)
Accessor(self, id) ==
    LET e == RawId_eq(FrameTy, self.id, id) IN
    IF e.panic THEN [panic |-> TRUE, ret |-> None]
    ELSE IF e.val THEN [panic |-> FALSE, ret |-> Some(ReadVar(self.u, id))]
    ELSE [panic |-> FALSE, ret |-> None]

NoRes == [kind |-> "none"]

\* $struct::new()
FrameNew ==
    /\ ~aborted
    /\ frame' = FrameZeroed
    /\ res' = NoRes
    /\ op' = "new"
    /\ UNCHANGED <<view, aborted, notFrame>>

\* $name::try_from(frame)
FrameTryFrom ==
    /\ ~aborted
    /\ res' = [kind |-> "try_from", r |-> TryFrom(frame)]
    /\ op' = "try_from"
    /\ UNCHANGED <<frame, view, aborted, notFrame>>

\* $struct::from(v) for the view v that the last try_from returned
FrameFromDecoded ==
    /\ ~aborted
    /\ op = "try_from"
    /\ res.r.ok
    /\ \E tail \in Tails(res.r.view.id) :
         LET f == From(res.r.view, tail) IN
           /\ aborted' = f.panic
           /\ res' = [kind |-> "from", r |-> f.frame, v |-> res.r.view]
    /\ op' = "round_trip"
    /\ UNCHANGED <<frame, view, notFrame>>

\* $struct::from(view) for a view built by the caller
FrameFromView ==
    /\ ~aborted
    /\ view # NoView
    /\ \E tail \in Tails(view.id) :
         LET f == From(view, tail) IN
           /\ aborted' = f.panic
           /\ res' = [kind |-> "from", r |-> f.frame, v |-> view]
    /\ op' = "from"
    /\ UNCHANGED <<frame, view, notFrame>>

\* frame.$varname()
FrameGet(id) ==
    /\ ~aborted
    /\ LET a == Accessor(frame, id) IN
         /\ aborted' = a.panic
         /\ res' = [kind |-> "get", r |-> a.ret, v |-> id]
    /\ op' = "get"
    /\ UNCHANGED <<frame, view, notFrame>>

\* frame.$varnamemut()
FrameGetMut(id) ==
    /\ ~aborted
    /\ LET a == Accessor(frame, id) IN
         /\ aborted' = a.panic
         /\ res' = [kind |-> "get", r |-> a.ret, v |-> id]
    /\ op' = "get_mut"
    /\ UNCHANGED <<frame, view, notFrame>>

FrameNext ==
    \/ FrameNew
    \/ FrameTryFrom
    \/ FrameFromDecoded
    \/ FrameFromView
    \/ \E id \in Ids(FrameTy) : FrameGet(id)
    \/ \E id \in Ids(FrameTy) : FrameGetMut(id)

(***************************************************************************)
(* Little-endian scalars (common.rs).                                      *)
(***************************************************************************)
\* a plausible slip: the most significant byte first
U16LE_from_big_endian(u) == << (u \div 256) % 256, u % 256 >>

\* From<u16> for U16LE: u.to_le_bytes()
U16LE_from(u) == << u % 256, (u \div 256) % 256 >>

\* From<U16LE> for u16: u16::from_le_bytes(u.0)
U16LE_into(b) == b[1] + 256 * b[2]

\* From<i16> for I16LE: u.to_le_bytes(), the bytes of the two's complement
I16LE_from(u) == U16LE_from((u + 65536) % 65536)

\* From<I16LE> for i16: i16::from_le_bytes(u.0)
I16LE_into(b) ==
    LET w == b[1] + 256 * b[2] IN
    IF w >= 32768 THEN w - 65536 ELSE w

\* From<u32> for U32LE: u.to_le_bytes()
U32LE_from(u) ==
    << u % 256, (u \div 256) % 256, (u \div 65536) % 256, (u \div 16777216) % 256 >>

\* From<U32LE> for u32: u32::from_le_bytes(u.0)
U32LE_into(b) == b[1] + 256 * b[2] + 65536 * b[3] + 16777216 * b[4]

(***************************************************************************)
(* The SPI transaction codec (spi.rs).                                     *)
(***************************************************************************)
\* the largest size of a single SPI transaction: assert!(size <= 0x1D)
MaxTransfer == 29
\* the size of the union SPIData: raw: [u8; 0x1D]
DataSize == 29

\* SPIRange(u32, u8)
SPIRange(offset, size) == [kind |-> "range", offset |-> offset, size |-> size]

RANGE_FACTORY_CALIBRATION_SENSORS == SPIRange(24608, 24)
RANGE_FACTORY_CALIBRATION_STICKS  == SPIRange(24637, 18)
RANGE_USER_CALIBRATION_STICKS     == SPIRange(32784, 22)
RANGE_USER_CALIBRATION_SENSORS    == SPIRange(32806, 26)
RANGE_CONTROLLER_COLOR_USE_SPI    == SPIRange(24603, 1)
RANGE_CONTROLLER_COLOR            == SPIRange(24656, 12)

\* the payload types that convert to and from an SPIReadResult
SPITypes ==
    {"SticksCalibration", "UserSticksCalibration", "SensorCalibration",
     "UserSensorCalibration", "ControllerColor"}

\* <T as SPI>::range()
RangeOf(ty) ==
    CASE ty = "SticksCalibration"     -> RANGE_FACTORY_CALIBRATION_STICKS
      [] ty = "UserSticksCalibration" -> RANGE_USER_CALIBRATION_STICKS
      [] ty = "SensorCalibration"     -> RANGE_FACTORY_CALIBRATION_SENSORS
      [] ty = "UserSensorCalibration" -> RANGE_USER_CALIBRATION_SENSORS
      [] ty = "ControllerColor"       -> RANGE_CONTROLLER_COLOR
      [] ty = "UseSPIColors"          -> RANGE_CONTROLLER_COLOR_USE_SPI

\* size_of::<T>() of the #[repr(packed)] payload types
SizeOf(ty) ==
    CASE ty = "SticksCalibration"     -> 9 + 9
      [] ty = "UserSticksCalibration" -> (2 + 9) + (2 + 9)
      [] ty = "SensorCalibration"     -> 4 * (3 * 2)
      [] ty = "UserSensorCalibration" -> 2 + 4 * (3 * 2)
      [] ty = "ControllerColor"       -> 4 * 3
      [] ty = "UseSPIColors"          -> 1

\* SPIRange::new: assert!(size <= 0x1D)
SPIRange_new(offset, size) ==
    IF size <= MaxTransfer
    THEN [panic |-> FALSE, ret |-> SPIRange(offset, size)]
    ELSE [panic |-> TRUE, ret |-> SPIRange(0, 0)]

NoSpiFrame == [kind |-> "none"]

\* SPIReadRequest::new: assert!(range.1 <= 0x1d)
SPIReadRequest_new(r) ==
    IF r.size <= MaxTransfer
    THEN [panic |-> FALSE,
          ret |-> [kind |-> "read_request", address |-> U32LE_from(r.offset),
                   size |-> r.size]]
    ELSE [panic |-> TRUE, ret |-> NoSpiFrame]

\* let mut raw = [0; 0x1D]; raw[..n].copy_from_slice(data)
Embed(data) ==
    [k \in 1..DataSize |-> IF k <= Len(data) THEN data[k] ELSE 0]

\* SPIWriteRequest::new: assert_eq!(range.1 as usize, data.len()), then the
\* slice raw[..range.1], which is out of bounds when range.1 > 0x1D
SPIWriteRequest_new(r, data) ==
    IF r.size # Len(data) THEN [panic |-> TRUE, ret |-> NoSpiFrame]
    ELSE IF r.size > DataSize THEN [panic |-> TRUE, ret |-> NoSpiFrame]
    ELSE [panic |-> FALSE,
          ret |-> [kind |-> "write_request", address |-> U32LE_from(r.offset),
                   size |-> r.size, data |-> Embed(data)]]

\* SPIData { <field>: value }: the bytes of the union past the value are not
\* initialised and read as `fill`
UnionOf(bytes, fill) ==
    [k \in 1..DataSize |-> IF k <= Len(bytes) THEN bytes[k] ELSE fill]

\* From<ControllerColor> / From<UserSensorCalibration> for SPIWriteRequest
SPIWriteRequest_from(ty, bytes, fill) ==
    IF RangeOf(ty).size <= MaxTransfer
    THEN [panic |-> FALSE,
          ret |-> [kind |-> "write_request",
                   address |-> U32LE_from(RangeOf(ty).offset),
                   size |-> RangeOf(ty).size, data |-> UnionOf(bytes, fill)]]
    ELSE [panic |-> TRUE, ret |-> NoSpiFrame]

\* SPIReadRequest::range, SPIWriteRequest::range, SPIReadResult::range
FrameRange(self) == SPIRange(U32LE_into(self.address), self.size)

\* Into<SPIReadResult> for T
IntoReadResult(ty, bytes, fill) ==
    [kind |-> "read_result", address |-> U32LE_from(RangeOf(ty).offset),
     size |-> RangeOf(ty).size, data |-> UnionOf(bytes, fill)]

NoRange == [kind |-> "none", offset |-> 0, size |-> 0]

\* a plausible slip: the two ranges of the error are swapped
TryFromReadResult_swapped(ty, value) ==
    IF FrameRange(value) = RangeOf(ty)
    THEN [ok |-> TRUE, val |-> [k \in 1..SizeOf(ty) |-> value.data[k]],
          expected |-> NoRange, got |-> NoRange]
    ELSE [ok |-> FALSE, val |-> <<>>,
          expected |-> FrameRange(value), got |-> RangeOf(ty)]

\* TryFrom<SPIReadResult> for T
TryFromReadResult(ty, value) ==
    IF FrameRange(value) = RangeOf(ty)
    THEN [ok |-> TRUE, val |-> [k \in 1..SizeOf(ty) |-> value.data[k]],
          expected |-> NoRange, got |-> NoRange]
    ELSE [ok |-> FALSE, val |-> <<>>,
          expected |-> RangeOf(ty), got |-> FrameRange(value)]

\* TryFrom<SPIReadResult> for UseSPIColors: value.data.use_spi_colors
\* .try_into().unwrap() aborts when the byte is the value of no UseSPIColors
UseSPIColors_try_from(value) ==
    LET t == RawId_try_into("UseSPIColors", value.data[1]) IN
    IF FrameRange(value) = RangeOf("UseSPIColors")
    THEN [panic |-> ~t.some, ok |-> TRUE, val |-> t.val,
          expected |-> NoRange, got |-> NoRange]
    ELSE [panic |-> FALSE, ok |-> FALSE, val |-> <<>>,
          expected |-> RangeOf("UseSPIColors"), got |-> FrameRange(value)]

\* fn dbg_spi_data: the names of the fields it prints; the slice
\* data.raw[..size] is out of bounds when size > 0x1D
dbg_spi_data(address, size) ==
    LET key == <<U32LE_into(address), size>> IN
    IF size > DataSize THEN [panic |-> TRUE, fields |-> <<>>]
    ELSE [panic |-> FALSE,
          fields |->
            CASE key = <<24576, 16>> -> <<"serial">>
              [] key = <<24637, 25>> -> <<"stick_factory">>
              [] key = <<24656, 13>> -> <<"color">>
              [] key = <<24704, 24>> -> <<"horizontal_offset", "stick_parameter1">>
              [] key = <<24728, 18>> -> <<"stick_parameter2">>
              [] key = <<32784, 24>> -> <<"stick_user">>
              [] key = <<32808, 24>> -> <<"imu_user">>
              [] OTHER -> <<"address", "size", "raw">>]

(***************************************************************************)
(* The values the SPI operations are applied to.                           *)
(***************************************************************************)
\* payload values are byte patterns 0..MaxPattern
MaxPattern == 1
\* bytes that are not initialised read as one of 0..MaxFill
MaxFill == 1
\* size bytes range over two small sizes, MaxTransfer - SizeSpread ..
\* MaxTransfer + SizeSpread, and 255
SizeSpread == 1

Pattern(s, n) == [k \in 1..n |-> (k * (2 * s + 1) + 85 * s + 1) % 256]

NoPayload == [kind |-> "none"]

\* values of the payload types: every byte pattern is one, the types are
\* packed structs of byte arrays
Payloads ==
    {[kind |-> "payload", ty |-> ty, bytes |-> Pattern(s, SizeOf(ty))] :
        ty \in SPITypes, s \in 0..MaxPattern}

\* offsets: the factory stick calibration's, and one with four non-zero bytes
OffsetSamples == {24637, 2147483647}

SizeBytes == {0, 1, 255} \cup ((MaxTransfer - SizeSpread)..(MaxTransfer + SizeSpread))

\* the (address, size) pairs of the SPI address map: the ranges of the
\* payload types, and the pairs dbg_spi_data knows
AddressMap ==
    {<<RangeOf(ty).offset, RangeOf(ty).size>> : ty \in SPITypes \cup {"UseSPIColors"}}
    \cup {<<24576, 16>>, <<24637, 25>>, <<24656, 13>>, <<24704, 24>>, <<24728, 18>>,
          <<32784, 24>>, <<32808, 24>>}

\* read results as the device may send them: any address, size and data
ReceivedResults ==
    {[kind |-> "read_result", address |-> U32LE_from(o), size |-> n,
      data |-> [k \in 1..DataSize |-> f]] :
        o \in OffsetSamples, n \in SizeBytes, f \in 0..MaxFill}
    \cup {[kind |-> "read_result", address |-> U32LE_from(a[1]), size |-> a[2],
           data |-> [k \in 1..DataSize |-> f]] :
             a \in AddressMap, f \in (0..MaxFill) \cup {255}}

\* the slices handed to SPIWriteRequest::new
DataSlices ==
    {Pattern(s, n) : s \in 0..MaxPattern,
                     n \in (SizeBytes \ {255}) \cup {RANGE_CONTROLLER_COLOR.size}}

NoConv == [kind |-> "none"]

(***************************************************************************)
(* Payload conversions as a state machine.                                 *)
(***************************************************************************)
\* payload.into(): an SPIReadResult built from the payload at hand
SpiInto ==
    /\ ~aborted
    /\ payload.kind = "payload"
    /\ \E f \in 0..MaxFill :
         spiframe' = IntoReadResult(payload.ty, payload.bytes, f)
    /\ conv' = NoConv
    /\ spiop' = "into"
    /\ UNCHANGED <<payload, range, aborted, notSpi>>

\* T::try_from(read result at hand)
SpiTryFrom(ty) ==
    /\ ~aborted
    /\ spiframe.kind = "read_result"
    /\ conv' = [kind |-> "try_from", ty |-> ty, r |-> TryFromReadResult(ty, spiframe)]
    /\ spiop' = "try_from"
    /\ UNCHANGED <<payload, spiframe, range, aborted, notSpi>>

SpiNext ==
    \/ SpiInto
    \/ \E ty \in SPITypes : SpiTryFrom(ty)

(***************************************************************************)
(* Ranges and requests as a state machine.                                 *)
(***************************************************************************)
\* SPIRange::new(offset, size)
RangeNew(offset, size) ==
    /\ ~aborted
    /\ LET r == SPIRange_new(offset, size) IN
         /\ aborted' = r.panic
         /\ range' = IF r.panic THEN range ELSE r.ret
    /\ conv' = [kind |-> "range_new", size |-> size]
    /\ spiop' = "range_new"
    /\ UNCHANGED <<payload, spiframe, notSpi>>

\* T::range()
RangeOfType(ty) ==
    /\ ~aborted
    /\ range' = RangeOf(ty)
    /\ conv' = [kind |-> "type_range", ty |-> ty]
    /\ spiop' = "type_range"
    /\ UNCHANGED <<payload, spiframe, aborted, notSpi>>

\* a read result arrives from the device
RangeReceive(f) ==
    /\ ~aborted
    /\ spiframe' = f
    /\ conv' = NoConv
    /\ spiop' = "receive"
    /\ UNCHANGED <<payload, range, aborted, notSpi>>

\* SPIReadRequest::new(range at hand)
RangeReadRequestNew ==
    /\ ~aborted
    /\ range.kind = "range"
    /\ LET r == SPIReadRequest_new(range) IN
         /\ aborted' = r.panic
         /\ spiframe' = IF r.panic THEN spiframe ELSE r.ret
    /\ conv' = [kind |-> "read_new", range |-> range]
    /\ spiop' = "read_new"
    /\ UNCHANGED <<payload, range, notSpi>>

\* SPIWriteRequest::new(range at hand, data)
RangeWriteRequestNew(data) ==
    /\ ~aborted
    /\ range.kind = "range"
    /\ LET r == SPIWriteRequest_new(range, data) IN
         /\ aborted' = r.panic
         /\ spiframe' = IF r.panic THEN spiframe ELSE r.ret
    /\ conv' = [kind |-> "write_new", range |-> range, data |-> data]
    /\ spiop' = "write_new"
    /\ UNCHANGED <<payload, range, notSpi>>

\* SPIWriteRequest::from(payload value)
RangeWriteRequestFrom(p, fill) ==
    /\ ~aborted
    /\ LET r == SPIWriteRequest_from(p.ty, p.bytes, fill) IN
         /\ aborted' = r.panic
         /\ spiframe' = IF r.panic THEN spiframe ELSE r.ret
    /\ conv' = [kind |-> "write_from", ty |-> p.ty]
    /\ spiop' = "write_from"
    /\ UNCHANGED <<payload, range, notSpi>>

\* frame.range() of the frame at hand: a read result, a read or a write request
RangeFrameRange ==
    /\ ~aborted
    /\ spiframe.kind \in {"read_result", "read_request", "write_request"}
    /\ range' = FrameRange(spiframe)
    /\ conv' = [kind |-> "frame_range", of |-> spiframe.kind]
    /\ spiop' = "frame_range"
    /\ UNCHANGED <<payload, spiframe, aborted, notSpi>>

\* T::try_from(read result at hand), UseSPIColors included
RangeTryFrom(ty) ==
    /\ ~aborted
    /\ spiframe.kind = "read_result"
    /\ LET r == IF ty = "UseSPIColors" THEN UseSPIColors_try_from(spiframe)
                ELSE TryFromReadResult(ty, spiframe) IN
         /\ aborted' = (ty = "UseSPIColors" /\ r.panic)
         /\ conv' = [kind |-> "try_from", ty |-> ty, r |-> r]
    /\ spiop' = "try_from"
    /\ UNCHANGED <<payload, spiframe, range, notSpi>>

\* format!("{:?}", frame) of the read result or write request at hand
RangeDebug ==
    /\ ~aborted
    /\ spiframe.kind \in {"read_result", "write_request"}
    /\ LET r == dbg_spi_data(spiframe.address, spiframe.size) IN
         /\ aborted' = r.panic
         /\ conv' = [kind |-> "debug", fields |-> r.fields]
    /\ spiop' = "debug"
    /\ UNCHANGED <<payload, spiframe, range, notSpi>>

RangeNext ==
    \/ \E o \in OffsetSamples, n \in SizeBytes : RangeNew(o, n)
    \/ \E ty \in SPITypes \cup {"UseSPIColors"} : RangeOfType(ty)
    \/ \E f \in ReceivedResults : RangeReceive(f)
    \/ RangeReadRequestNew
    \/ \E d \in DataSlices : RangeWriteRequestNew(d)
    \/ \E p \in {q \in Payloads : q.ty \in {"ControllerColor", "UserSensorCalibration"}},
          f \in 0..MaxFill : RangeWriteRequestFrom(p, f)
    \/ RangeFrameRange
    \/ \E ty \in SPITypes \cup {"UseSPIColors"} : RangeTryFrom(ty)
    \/ RangeDebug

(***************************************************************************)
(* Stick coordinate packing (spi.rs): two 12-bit values in three bytes.    *)
(***************************************************************************)
\* a & b and a | b on unsigned integers
RECURSIVE BitAnd(_, _)
BitAnd(a, b) ==
    IF a = 0 \/ b = 0 THEN 0
    ELSE (IF a % 2 = 1 /\ b % 2 = 1 THEN 1 ELSE 0) + 2 * BitAnd(a \div 2, b \div 2)

RECURSIVE BitOr(_, _)
BitOr(a, b) ==
    IF a = 0 THEN b
    ELSE IF b = 0 THEN a
    ELSE (IF a % 2 = 1 \/ b % 2 = 1 THEN 1 ELSE 0) + 2 * BitOr(a \div 2, b \div 2)

\* a << n on a u16, a >> n, and `as u8`
Shl16(a, n) == (a * 2^n) % 65536
Shr(a, n) == a \div 2^n
AsU8(a) == a % 256

\* a plausible slip: the low nibble of y is not moved to the high nibble
cord_packing_unshifted(x, y) ==
    << AsU8(BitAnd(x, 255)),
       BitOr(AsU8(BitAnd(Shr(x, 8), 15)), AsU8(BitAnd(y, 15))),
       AsU8(Shr(y, 4)) >>

\* fn cord_packing(x: u16, y: u16) -> [u8; 3]
cord_packing(x, y) ==
    << AsU8(BitAnd(x, 255)),
       BitOr(AsU8(BitAnd(Shr(x, 8), 15)), AsU8(Shl16(BitAnd(y, 15), 4))),
       AsU8(Shr(y, 4)) >>

\* a plausible slip: the high nibble of the middle byte is not masked off
Left_conv_x_unmasked(raw) == BitOr(Shl16(raw[2], 8), raw[1])

\* LeftStickCalibration::conv_x
Left_conv_x(raw) == BitOr(BitAnd(Shl16(raw[2], 8), 3840), raw[1])

\* LeftStickCalibration::conv_y
Left_conv_y(raw) == BitOr(Shl16(raw[3], 4), Shr(raw[2], 4))

\* RightStickCalibration::conv_x
Right_conv_x(raw) == BitOr(BitAnd(Shl16(raw[2], 8), 3840), raw[1])

\* RightStickCalibration::conv_y
Right_conv_y(raw) == BitOr(Shl16(raw[3], 4), Shr(raw[2], 4))

\* the 12-bit coordinates
Coord == 0..4095

\* the coordinates and bytes paired with every value of the other one
CoordSamples == {0, 2208, 2652, 4095}
ByteSamples == {0, 90, 255}

\* the pairs handed to cord_packing
CoordPairs == (Coord \X CoordSamples) \cup (CoordSamples \X Coord)

\* three raw bytes as read from the flash
RawTriples == {<<a, b, c>> : a \in ByteSamples, b \in Byte, c \in ByteSamples}

\* cord_packing(x, y) of the pair at hand
PackCordPacking ==
    /\ ~aborted
    /\ packop = "init"
    /\ packed' = cord_packing(coord[1], coord[2])
    /\ packop' = "cord_packing"
    /\ UNCHANGED <<coord, unpacked, aborted, notPack>>

\* (conv_x(raw), conv_y(raw)) of a LeftStickCalibration on the bytes at hand
PackConvLeft ==
    /\ ~aborted
    /\ packop # "init"
    /\ unpacked' = <<Left_conv_x(packed), Left_conv_y(packed)>>
    /\ packop' = IF packop \in {"raw", "raw_conv_left", "raw_conv_right"}
                 THEN "raw_conv_left" ELSE "conv_left"
    /\ UNCHANGED <<coord, packed, aborted, notPack>>

\* (conv_x(raw), conv_y(raw)) of a RightStickCalibration on the bytes at hand
PackConvRight ==
    /\ ~aborted
    /\ packop # "init"
    /\ unpacked' = <<Right_conv_x(packed), Right_conv_y(packed)>>
    /\ packop' = IF packop \in {"raw", "raw_conv_left", "raw_conv_right"}
                 THEN "raw_conv_right" ELSE "conv_right"
    /\ UNCHANGED <<coord, packed, aborted, notPack>>

PackNext ==
    \/ PackCordPacking
    \/ PackConvLeft
    \/ PackConvRight

(***************************************************************************)
(* Left/RightStickCalibration (spi.rs): max, center and min, each a packed *)
(* coordinate pair; max and min are stored relative to center.             *)
(***************************************************************************)
\* a + b on u16: the sum modulo 2^16 and whether it overflowed (a debug build
\* aborts on overflow, a release build wraps)
U16Add(a, b) == [val |-> (a + b) % 65536, overflow |-> a + b > 65535]

\* u16::min
U16Min(a, b) == IF a < b THEN a ELSE b

\* a plausible slip: wrapping subtraction in place of the saturating one
wrapping_sub(a, b) == (a - b + 65536) % 65536

\* u16::saturating_sub
saturating_sub(a, b) == IF a >= b THEN a - b ELSE 0

\* a plausible slip: the derived Default, all bytes zero
Left_default_derived ==
    [side |-> "left", max |-> <<0, 0, 0>>, center |-> <<0, 0, 0>>, min |-> <<0, 0, 0>>]

\* LeftStickCalibration::default
Left_default ==
    [side |-> "left", max |-> cord_packing(1296, 1145),
     center |-> cord_packing(1951, 2208), min |-> cord_packing(1271, 1060)]

\* RightStickCalibration::default
Right_default ==
    [side |-> "right", center |-> cord_packing(1951, 2208),
     min |-> cord_packing(1271, 1060), max |-> cord_packing(1296, 1145)]

\* LeftStickCalibration::center
Left_center(self) == <<Left_conv_x(self.center), Left_conv_y(self.center)>>

\* a plausible slip: the sums are not clamped to 0xFFF
Left_max_unclamped(self) ==
    LET center == Left_center(self)
        sx == U16Add(center[1], Left_conv_x(self.max))
        sy == U16Add(center[2], Left_conv_y(self.max))
    IN  [overflow |-> sx.overflow \/ sy.overflow, val |-> <<sx.val, sy.val>>]

\* LeftStickCalibration::max
Left_max(self) ==
    LET center == Left_center(self)
        sx == U16Add(center[1], Left_conv_x(self.max))
        sy == U16Add(center[2], Left_conv_y(self.max))
    IN  [overflow |-> sx.overflow \/ sy.overflow,
         val |-> <<U16Min(sx.val, 4095), U16Min(sy.val, 4095)>>]

\* LeftStickCalibration::min
Left_min(self) ==
    LET center == Left_center(self) IN
    << saturating_sub(center[1], Left_conv_x(self.min)),
       saturating_sub(center[2], Left_conv_y(self.min)) >>

\* RightStickCalibration::center
Right_center(self) == <<Right_conv_x(self.center), Right_conv_y(self.center)>>

\* RightStickCalibration::max
Right_max(self) ==
    LET center == Right_center(self)
        sx == U16Add(center[1], Right_conv_x(self.max))
        sy == U16Add(center[2], Right_conv_y(self.max))
    IN  [overflow |-> sx.overflow \/ sy.overflow,
         val |-> <<U16Min(sx.val, 4095), U16Min(sy.val, 4095)>>]

\* RightStickCalibration::min
Right_min(self) ==
    LET center == Right_center(self) IN
    << saturating_sub(center[1], Right_conv_x(self.min)),
       saturating_sub(center[2], Right_conv_y(self.min)) >>

\* the coordinates the three fields of a calibration are drawn from, and the
\* packed fields: every three bytes are the packing of one pair
StickCoordSamples == {0, 1, 2048, 4095}
StickFields == {cord_packing(x, y) : x, y \in StickCoordSamples}

\* the calibrations: the two defaults and any nine bytes (as read from the flash)
Sticks ==
    {Left_default, Right_default} \cup
    [side : {"left", "right"}, max : StickFields, center : StickFields,
     min : StickFields]

NoStick == [side |-> "none"]
NoStickRes == [max |-> None, center |-> None, min |-> None]

\* stick.max()
StickMax ==
    /\ ~aborted
    /\ LET r == IF stick.side = "left" THEN Left_max(stick) ELSE Right_max(stick) IN
         /\ aborted' \in {FALSE, r.overflow}
         /\ stickres' = [stickres EXCEPT !.max = Some(r.val)]
    /\ UNCHANGED <<stick, notStick>>

\* stick.center()
StickCenter ==
    /\ ~aborted
    /\ stickres' = [stickres EXCEPT !.center =
           Some(IF stick.side = "left" THEN Left_center(stick) ELSE Right_center(stick))]
    /\ UNCHANGED <<stick, aborted, notStick>>

\* stick.min()
StickMin ==
    /\ ~aborted
    /\ stickres' = [stickres EXCEPT !.min =
           Some(IF stick.side = "left" THEN Left_min(stick) ELSE Right_min(stick))]
    /\ UNCHANGED <<stick, aborted, notStick>>

StickNext ==
    \/ StickMax
    \/ StickCenter
    \/ StickMin

(***************************************************************************)
(* SensorCalibration and the user calibration wrappers (spi.rs): a         *)
(* two-byte magic followed by a calibration of the factory shape.          *)
(***************************************************************************)
USER_CALIB_MAGIC == <<178, 161>>
USER_NO_CALIB_MAGIC == <<255, 255>>

\* SensorCalibration::default
SensorCalibration_default ==
    [acc_orig  |-> <<I16LE_from(-2 * 1024), I16LE_from(-1 * 1024), I16LE_from(0 * 1024)>>,
     acc_sens  |-> <<I16LE_from(4000), I16LE_from(4000), I16LE_from(4000)>>,
     gyro_orig |-> <<I16LE_from(14 * 128), I16LE_from(253 * 128), I16LE_from(224 * 128)>>,
     gyro_sens |-> <<I16LE_from(5173), I16LE_from(5173), I16LE_from(5173)>>]

\* SensorCalibration::reset
SensorCalibration_reset ==
    LET zero == << <<0, 0>>, <<0, 0>>, <<0, 0>> >> IN
    [acc_orig |-> zero, acc_sens |-> zero, gyro_orig |-> zero, gyro_sens |-> zero]

\* LeftUserStickCalibration::default, RightUserStickCalibration::default and
\* UserSensorCalibration::default
UserDefault(kind) ==
    [kind |-> kind, magic |-> USER_CALIB_MAGIC,
     calib |-> CASE kind = "left" -> Left_default
                 [] kind = "right" -> Right_default
                 [] kind = "sensor" -> SensorCalibration_default]

\* UserSensorCalibration::reset
UserSensorCalibration_reset ==
    [kind |-> "sensor", magic |-> USER_NO_CALIB_MAGIC, calib |-> SensorCalibration_reset]

\* From<SensorCalibration> for UserSensorCalibration
UserSensorCalibration_from(calib) ==
    [kind |-> "sensor", magic |-> USER_CALIB_MAGIC, calib |-> calib]

\* LeftUserStickCalibration::set_magic
Left_set_magic(self, magic) ==
    [self EXCEPT !.magic = IF magic THEN USER_CALIB_MAGIC ELSE USER_NO_CALIB_MAGIC]

\* a plausible slip: set_calib marks the calibration present, as the right
\* wrapper's does
Left_set_calib_with_magic(self, calib) ==
    [self EXCEPT !.magic = USER_CALIB_MAGIC, !.calib = calib]

\* LeftUserStickCalibration::set_calib
Left_set_calib(self, calib) == [self EXCEPT !.calib = calib]

\* RightUserStickCalibration::set_calib
Right_set_calib(self, calib) ==
    [self EXCEPT !.magic = USER_CALIB_MAGIC, !.calib = calib]

\* a plausible slip: only the first byte of the magic is compared
User_calib_first_byte(self) ==
    IF self.magic[1] = USER_CALIB_MAGIC[1] THEN Some(self.calib) ELSE None

\* LeftUserStickCalibration::calib, RightUserStickCalibration::calib and
\* UserSensorCalibration::calib
User_calib(self) ==
    IF self.magic = USER_CALIB_MAGIC THEN Some(self.calib) ELSE None

\* LeftUserStickCalibration::max
LeftUser_max(self) ==
    IF self.magic = USER_CALIB_MAGIC
    THEN [overflow |-> Left_max(self.calib).overflow, ret |-> Some(Left_max(self.calib).val)]
    ELSE [overflow |-> FALSE, ret |-> None]

\* LeftUserStickCalibration::center
LeftUser_center(self) ==
    IF self.magic = USER_CALIB_MAGIC THEN Some(Left_center(self.calib)) ELSE None

\* LeftUserStickCalibration::min
LeftUser_min(self) ==
    IF self.magic = USER_CALIB_MAGIC THEN Some(Left_min(self.calib)) ELSE None

\* the magics a wrapper read from the flash may hold: every first byte with
\* the second byte of either constant, and every second byte with the first
MagicSamples ==
    {<<a, b>> : a \in Byte, b \in {USER_CALIB_MAGIC[2], USER_NO_CALIB_MAGIC[2]}}
    \cup {<<a, b>> : a \in {USER_CALIB_MAGIC[1], USER_NO_CALIB_MAGIC[1]}, b \in Byte}

\* the calibrations a wrapper may hold or be given: the default and another one
UserCalibs(kind) ==
    CASE kind = "left" ->
           {Left_default,
            [side |-> "left", max |-> cord_packing(1, 4095),
             center |-> cord_packing(2048, 1), min |-> cord_packing(4095, 0)]}
      [] kind = "right" ->
           {Right_default,
            [side |-> "right", center |-> cord_packing(2048, 1),
             min |-> cord_packing(4095, 0), max |-> cord_packing(1, 4095)]}
      [] kind = "sensor" -> {SensorCalibration_default, SensorCalibration_reset}

UserKinds == {"left", "right", "sensor"}

\* the wrappers as read from the flash: any magic, any calibration
UserWrappers ==
    UNION {[kind : {k}, magic : MagicSamples, calib : UserCalibs(k)] : k \in UserKinds}

NoUcal == [kind |-> "none"]
NoUcalRes == [op |-> "init", arg |-> "none", ret |-> None, prev |-> "init"]

\* the calls made so far on a wrapper read from the flash: none.
\*   origin: how the wrapper came to be ("flash", "default", "reset", "from")
\*   magic:  the argument of the last set_magic since ("true", "false"), or "none"
\*   calib:  the argument of the last set_calib since, or None
\*   toggle: "off" after set_magic(false), "on" after set_magic(true) right
\*           after it, with what calib() returned before the set_magic(false)
\*   pre:    the wrapper before the last set_magic or set_calib
NoToggle == [stage |-> "none", before |-> None]
NoHist ==
    [origin |-> "flash", magic |-> "none", calib |-> None, toggle |-> NoToggle,
     pre |-> NoUcal]

\* the last operation that built or changed the wrapper
UserPrev == IF ucalres.op \in {"calib", "max", "center", "min"}
            THEN ucalres.prev ELSE ucalres.op

\* T::default() for the three wrappers
UserNewDefault(kind) ==
    /\ ~aborted
    /\ ucal' = UserDefault(kind)
    /\ ucalres' = [op |-> "default", arg |-> "none", ret |-> None, prev |-> "none"]
    /\ uhist' = [NoHist EXCEPT !.origin = "default"]
    /\ UNCHANGED <<aborted, notUser>>

\* UserSensorCalibration::reset()
UserReset ==
    /\ ~aborted
    /\ ucal' = UserSensorCalibration_reset
    /\ ucalres' = [op |-> "reset", arg |-> "none", ret |-> None, prev |-> "none"]
    /\ uhist' = [NoHist EXCEPT !.origin = "reset"]
    /\ UNCHANGED <<aborted, notUser>>

\* UserSensorCalibration::from(calib)
UserFrom(calib) ==
    /\ ~aborted
    /\ ucal' = UserSensorCalibration_from(calib)
    /\ ucalres' = [op |-> "from", arg |-> calib, ret |-> None, prev |-> "none"]
    /\ uhist' = [NoHist EXCEPT !.origin = "from"]
    /\ UNCHANGED <<aborted, notUser>>

\* ucal.set_magic(magic): the left wrapper only
UserSetMagic(magic) ==
    /\ ~aborted
    /\ ucal.kind = "left"
    /\ ucal' = Left_set_magic(ucal, magic)
    /\ ucalres' = [op |-> "set_magic", arg |-> magic, ret |-> None, prev |-> "none"]
    /\ uhist' = [uhist EXCEPT
           !.magic = IF magic THEN "true" ELSE "false",
           !.toggle = IF ~magic THEN [stage |-> "off", before |-> User_calib(ucal)]
                      ELSE IF uhist.toggle.stage = "off"
                      THEN [stage |-> "on", before |-> uhist.toggle.before]
                      ELSE NoToggle,
           !.pre = ucal]
    /\ UNCHANGED <<aborted, notUser>>

\* ucal.set_calib(calib): the stick wrappers
UserSetCalib(calib) ==
    /\ ~aborted
    /\ ucal.kind \in {"left", "right"}
    /\ calib.side = ucal.kind
    /\ ucal' = IF ucal.kind = "left" THEN Left_set_calib(ucal, calib)
               ELSE Right_set_calib(ucal, calib)
    /\ ucalres' = [op |-> "set_calib", arg |-> calib, ret |-> None, prev |-> "none"]
    /\ uhist' = [uhist EXCEPT !.calib = Some(calib), !.toggle = NoToggle, !.pre = ucal]
    /\ UNCHANGED <<aborted, notUser>>

\* ucal.calib()
UserCalib ==
    /\ ~aborted
    /\ ucal.kind \in UserKinds
    /\ ucalres' = [op |-> "calib", arg |-> ucalres.arg, ret |-> User_calib(ucal),
                   prev |-> UserPrev]
    /\ UNCHANGED <<ucal, uhist, aborted, notUser>>

\* ucal.max(): the left wrapper only
UserMax ==
    /\ ~aborted
    /\ ucal.kind = "left"
    /\ LET r == LeftUser_max(ucal) IN
         /\ aborted' \in {FALSE, r.overflow}
         /\ ucalres' = [op |-> "max", arg |-> ucalres.arg, ret |-> r.ret,
                        prev |-> UserPrev]
    /\ UNCHANGED <<ucal, uhist, notUser>>

\* ucal.center(): the left wrapper only
UserCenter ==
    /\ ~aborted
    /\ ucal.kind = "left"
    /\ ucalres' = [op |-> "center", arg |-> ucalres.arg, ret |-> LeftUser_center(ucal),
                   prev |-> UserPrev]
    /\ UNCHANGED <<ucal, uhist, aborted, notUser>>

\* ucal.min(): the left wrapper only
UserMin ==
    /\ ~aborted
    /\ ucal.kind = "left"
    /\ ucalres' = [op |-> "min", arg |-> ucalres.arg, ret |-> LeftUser_min(ucal),
                   prev |-> UserPrev]
    /\ UNCHANGED <<ucal, uhist, aborted, notUser>>

UserNext ==
    \/ \E k \in UserKinds : UserNewDefault(k)
    \/ UserReset
    \/ \E c \in UserCalibs("sensor") : UserFrom(c)
    \/ \E m \in BOOLEAN : UserSetMagic(m)
    \/ \E c \in UserCalibs("left") \cup UserCalibs("right") : UserSetCalib(c)
    \/ UserCalib
    \/ UserMax
    \/ UserCenter
    \/ UserMin

(***************************************************************************)
(* Color (spi.rs): three bytes, parsed from and formatted as hex digits.   *)
(* A string is the sequence of its characters; "e_acute" stands for a      *)
(* character of two UTF-8 bytes, every other character is one byte.        *)
(***************************************************************************)
LowerHex == <<"0", "1", "2", "3", "4", "5", "6", "7", "8", "9",
              "a", "b", "c", "d", "e", "f">>
UpperHex == <<"0", "1", "2", "3", "4", "5", "6", "7", "8", "9",
              "A", "B", "C", "D", "E", "F">>

\* the bytes of a string: each one with its character and whether it starts it
RECURSIVE Utf8(_)
Utf8(s) ==
    IF s = <<>> THEN <<>>
    ELSE (IF Head(s) = "e_acute"
          THEN <<[ch |-> Head(s), lead |-> TRUE], [ch |-> Head(s), lead |-> FALSE]>>
          ELSE <<[ch |-> Head(s), lead |-> TRUE]>>) \o Utf8(Tail(s))

\* str::is_char_boundary on the bytes b
is_char_boundary(b, i) == i = 0 \/ i = Len(b) \/ (i < Len(b) /\ b[i + 1].lead)

\* str::get(i..j) on the bytes b: None when out of range or inside a character
str_get(b, i, j) ==
    IF i <= j /\ j <= Len(b) /\ is_char_boundary(b, i) /\ is_char_boundary(b, j)
    THEN Some(SubSeq(b, i + 1, j))
    ELSE None

\* char::to_digit(16)
to_digit16(c) ==
    IF \E k \in 1..16 : LowerHex[k] = c
    THEN Some((CHOOSE k \in 1..16 : LowerHex[k] = c) - 1)
    ELSE IF \E k \in 1..16 : UpperHex[k] = c
    THEN Some((CHOOSE k \in 1..16 : UpperHex[k] = c) - 1)
    ELSE None

\* the digits of from_str_radix, most significant first
RECURSIVE radix16_digits(_, _)
radix16_digits(b, acc) ==
    IF b = <<>> THEN [ok |-> TRUE, val |-> acc, err |-> "none"]
    ELSE LET d == IF b[1].lead THEN to_digit16(b[1].ch) ELSE None IN
         IF ~d.some THEN [ok |-> FALSE, val |-> 0, err |-> "InvalidDigit"]
         ELSE IF acc * 16 + d.val > 255
         THEN [ok |-> FALSE, val |-> 0, err |-> "PosOverflow"]
         ELSE radix16_digits(Tail(b), acc * 16 + d.val)

\* u8::from_str_radix(src, 16): an optional '+' sign, then digits only
u8_from_str_radix16(b) ==
    IF b = <<>> THEN [ok |-> FALSE, val |-> 0, err |-> "Empty"]
    ELSE IF Len(b) = 1 /\ b[1].ch \in {"+", "-"}
    THEN [ok |-> FALSE, val |-> 0, err |-> "InvalidDigit"]
    ELSE IF b[1].ch = "+" THEN radix16_digits(Tail(b), 0)
    ELSE radix16_digits(b, 0)

\* a plausible slip: {:x} in place of {:02x}
fmt_x(n) ==
    IF n < 16 THEN <<LowerHex[n + 1]>>
    ELSE <<LowerHex[(n \div 16) + 1], LowerHex[(n % 16) + 1]>>

\* {:02x} of a u8
fmt_02x(n) == <<LowerHex[(n \div 16) + 1], LowerHex[(n % 16) + 1]>>

\* impl fmt::Display for Color
Color_fmt(self) == <<"#">> \o fmt_02x(self[1]) \o fmt_02x(self[2]) \o fmt_02x(self[3])

\* impl FromStr for Color
Color_from_str(s) ==
    LET b == Utf8(s)
        p1 == str_get(b, 0, 2)
        p2 == str_get(b, 2, 4)
        p3 == str_get(b, 4, 6)
        Panic == [panic |-> TRUE, ok |-> FALSE, val |-> <<>>, err |-> "none"]
        Err(e) == [panic |-> FALSE, ok |-> FALSE, val |-> <<>>, err |-> e]
    IN  IF Len(b) # 6 THEN Panic
        ELSE IF ~p1.some THEN Panic
        ELSE IF ~u8_from_str_radix16(p1.val).ok THEN Err(u8_from_str_radix16(p1.val).err)
        ELSE IF ~p2.some THEN Panic
        ELSE IF ~u8_from_str_radix16(p2.val).ok THEN Err(u8_from_str_radix16(p2.val).err)
        ELSE IF ~p3.some THEN Panic
        ELSE IF ~u8_from_str_radix16(p3.val).ok THEN Err(u8_from_str_radix16(p3.val).err)
        ELSE [panic |-> FALSE, ok |-> TRUE, err |-> "none",
              val |-> <<u8_from_str_radix16(p1.val).val, u8_from_str_radix16(p2.val).val,
                        u8_from_str_radix16(p3.val).val>>]

\* the characters of the strings handed to from_str
LowerHexChars == {LowerHex[k] : k \in 1..16}
HexChars == LowerHexChars \cup {UpperHex[k] : k \in 1..16}
Chars == HexChars \cup {"g", "G", "x", "+", "-", " ", "#", "e_acute"}

\* pairs of lowercase hex digits: all of them, and three of them
HexPairs == {<<a, b>> : a, b \in LowerHexChars}
PairSamples == {<<"0", "0">>, <<"8", "0">>, <<"f", "f">>}

\* six lowercase hex digits: every pair in each place
LowerHexStrings ==
    {p \o q \o r : p \in HexPairs, q \in PairSamples, r \in PairSamples}
    \cup {p \o q \o r : p \in PairSamples, q \in HexPairs, r \in PairSamples}
    \cup {p \o q \o r : p \in PairSamples, q \in PairSamples, r \in HexPairs}

\* a string of six characters with any character in one, or two, places
OneCharOff ==
    {[s EXCEPT ![k] = c] :
        s \in {<<"f", "f", "8", "0", "0", "0">>, <<"1", "A", "b", "C", "d", "9">>},
        k \in 1..6, c \in Chars}
    \cup {[s EXCEPT ![k] = c, ![k + 2] = c] :
        s \in {<<"1", "1", "2", "2", "3", "3">>}, k \in 1..4, c \in Chars}

\* strings of other lengths, in characters or in bytes
OtherLengths ==
    {<<>>, <<"f", "f", "8", "0", "0">>, <<"f", "f", "8", "0", "0", "0", "0">>,
     <<"#", "f", "f", "8", "0", "0", "0">>,
     <<"e_acute", "1", "2", "3", "4">>, <<"a", "e_acute", "1", "2", "3">>,
     <<"a", "1", "e_acute", "2", "3">>, <<"e_acute", "e_acute", "e_acute">>}

ColorStrings == LowerHexStrings \cup OneCharOff \cup OtherLengths

NoColRes == [op |-> "init"]

\* s.parse::<Color>() of the string at hand
ColorFromStr ==
    /\ ~aborted
    /\ colres.op = "init"
    /\ LET r == Color_from_str(colstr) IN
         /\ aborted' = r.panic
         /\ colres' = [op |-> "from_str", r |-> r]
    /\ UNCHANGED <<colstr, notColor>>

\* color.to_string() of the color that from_str returned
ColorToString ==
    /\ ~aborted
    /\ colres.op = "from_str"
    /\ colres.r.ok
    /\ colres' = [op |-> "to_string", r |-> colres.r, out |-> Color_fmt(colres.r.val)]
    /\ UNCHANGED <<colstr, aborted, notColor>>

ColorNext ==
    \/ ColorFromStr
    \/ ColorToString

(***************************************************************************)
(* The little-endian scalars as a state machine.                           *)
(***************************************************************************)
LETypes == {"U16LE", "I16LE", "U32LE"}

\* From<int> for the wrapper
LE_from(ty, v) ==
    CASE ty = "U16LE" -> U16LE_from(v)
      [] ty = "I16LE" -> I16LE_from(v)
      [] ty = "U32LE" -> U32LE_from(v)

\* From<wrapper> for the int
LE_into(ty, b) ==
    CASE ty = "U16LE" -> U16LE_into(b)
      [] ty = "I16LE" -> I16LE_into(b)
      [] ty = "U32LE" -> U32LE_into(b)

\* the integers handed to From: every u16, every i16, and u32 values
U32Samples ==
    {0, 1, 255, 256, 4660, 65535, 65536, 16777215, 16777216, 305419896, 2147483647}
LEInts ==
    [ty : {"U16LE"}, form : {"int"}, v : 0..65535]
    \cup [ty : {"I16LE"}, form : {"int"}, v : (-32768)..32767]
    \cup [ty : {"U32LE"}, form : {"int"}, v : U32Samples]

\* the wrappers as read from a frame: any bytes
LEByteSamples == {0, 1, 127, 128, 255}
LEWrappers ==
    [ty : {"U16LE", "I16LE"}, form : {"bytes"},
     v : {<<a, b>> : a \in Byte, b \in LEByteSamples}
         \cup {<<a, b>> : a \in LEByteSamples, b \in Byte}]
    \cup [ty : {"U32LE"}, form : {"bytes"},
          v : {<<a, b, c, d>> : a \in LEByteSamples, b \in LEByteSamples,
                                c \in LEByteSamples, d \in {0, 1, 18, 127}}]

NoLE == [kind |-> "none"]

\* Wrapper::from(v) of the integer at hand
LEFrom ==
    /\ ~aborted
    /\ leval.form = "int"
    /\ leres = NoLE
    /\ leres' = [op |-> "from", bytes |-> LE_from(leval.ty, leval.v)]
    /\ UNCHANGED <<leval, aborted, notLE>>

\* int::from(w) of the wrapper that from returned
LEFromInto ==
    /\ ~aborted
    /\ leval.form = "int"
    /\ leres # NoLE
    /\ leres.op = "from"
    /\ leres' = [op |-> "from_into", bytes |-> leres.bytes,
                 val |-> LE_into(leval.ty, leres.bytes)]
    /\ UNCHANGED <<leval, aborted, notLE>>

\* int::from(w) of the wrapper at hand
LEInto ==
    /\ ~aborted
    /\ leval.form = "bytes"
    /\ leres = NoLE
    /\ leres' = [op |-> "into", val |-> LE_into(leval.ty, leval.v)]
    /\ UNCHANGED <<leval, aborted, notLE>>

\* Wrapper::from(v) of the integer that into returned
LEIntoFrom ==
    /\ ~aborted
    /\ leval.form = "bytes"
    /\ leres # NoLE
    /\ leres.op = "into"
    /\ leres' = [op |-> "into_from", val |-> leres.val,
                 bytes |-> LE_from(leval.ty, leres.val)]
    /\ UNCHANGED <<leval, aborted, notLE>>

LENext ==
    \/ LEFrom
    \/ LEFromInto
    \/ LEInto
    \/ LEIntoFrom

(***************************************************************************)
(* Specifications.                                                         *)
(***************************************************************************)
\* the tag wrapper alone: a RawId::default() of either enumeration
InitTag ==
    /\ tyid \in EnumNames
    /\ rawid = 0
    /\ tagsrc = [kind |-> "byte", val |-> 0]
    /\ tagres = None
    /\ tagop = "default"
    /\ frame = FrameZeroed /\ view = NoView /\ res = NoRes /\ op = "init"
    /\ payload = NoPayload /\ spiframe = NoSpiFrame /\ range = NoRange
    /\ conv = NoConv /\ spiop = "init"
    /\ coord = <<0, 0>> /\ packed = <<0, 0, 0>> /\ unpacked = <<0, 0>>
    /\ packop = "init"
    /\ stick = NoStick /\ stickres = NoStickRes
    /\ ucal = NoUcal /\ ucalres = NoUcalRes /\ uhist = NoHist
    /\ colstr = <<>> /\ colres = NoColRes
    /\ leval = NoLE /\ leres = NoLE
    /\ aborted = FALSE

SpecTag == InitTag /\ [][TagNext]_vars

\* the frames: a frame holding any bytes (as read from the transport), or a
\* view built by the caller
InitFrame ==
    /\ \/ frame \in Frames /\ view = NoView
       \/ frame = FrameZeroed /\ view \in Views
    /\ res = NoRes
    /\ op = "init"
    /\ tyid = FrameTy /\ rawid = 0 /\ tagsrc = [kind |-> "byte", val |-> 0]
    /\ tagres = None /\ tagop = "default"
    /\ payload = NoPayload /\ spiframe = NoSpiFrame /\ range = NoRange
    /\ conv = NoConv /\ spiop = "init"
    /\ coord = <<0, 0>> /\ packed = <<0, 0, 0>> /\ unpacked = <<0, 0>>
    /\ packop = "init"
    /\ stick = NoStick /\ stickres = NoStickRes
    /\ ucal = NoUcal /\ ucalres = NoUcalRes /\ uhist = NoHist
    /\ colstr = <<>> /\ colres = NoColRes
    /\ leval = NoLE /\ leres = NoLE
    /\ aborted = FALSE

SpecFrame == InitFrame /\ [][FrameNext]_vars

\* the payload conversions: a payload value of one of the types
InitSpi ==
    /\ payload \in Payloads
    /\ spiframe = NoSpiFrame /\ range = NoRange /\ conv = NoConv /\ spiop = "init"
    /\ tyid = FrameTy /\ rawid = 0 /\ tagsrc = [kind |-> "byte", val |-> 0]
    /\ tagres = None /\ tagop = "default"
    /\ frame = FrameZeroed /\ view = NoView /\ res = NoRes /\ op = "init"
    /\ coord = <<0, 0>> /\ packed = <<0, 0, 0>> /\ unpacked = <<0, 0>>
    /\ packop = "init"
    /\ stick = NoStick /\ stickres = NoStickRes
    /\ ucal = NoUcal /\ ucalres = NoUcalRes /\ uhist = NoHist
    /\ colstr = <<>> /\ colres = NoColRes
    /\ leval = NoLE /\ leres = NoLE
    /\ aborted = FALSE

SpecSPI == InitSpi /\ [][SpiNext]_vars

\* ranges and requests: no range and no frame at hand yet
InitRange ==
    /\ payload = NoPayload
    /\ spiframe = NoSpiFrame /\ range = NoRange /\ conv = NoConv /\ spiop = "init"
    /\ tyid = FrameTy /\ rawid = 0 /\ tagsrc = [kind |-> "byte", val |-> 0]
    /\ tagres = None /\ tagop = "default"
    /\ frame = FrameZeroed /\ view = NoView /\ res = NoRes /\ op = "init"
    /\ coord = <<0, 0>> /\ packed = <<0, 0, 0>> /\ unpacked = <<0, 0>>
    /\ packop = "init"
    /\ stick = NoStick /\ stickres = NoStickRes
    /\ ucal = NoUcal /\ ucalres = NoUcalRes /\ uhist = NoHist
    /\ colstr = <<>> /\ colres = NoColRes
    /\ leval = NoLE /\ leres = NoLE
    /\ aborted = FALSE

SpecRange == InitRange /\ [][RangeNext]_vars

\* the packing: a pair of coordinates to pack, or three raw bytes to decode
InitPack ==
    /\ \/ coord \in CoordPairs /\ packed = <<0, 0, 0>> /\ packop = "init"
       \/ coord = <<0, 0>> /\ packed \in RawTriples /\ packop = "raw"
    /\ unpacked = <<0, 0>>
    /\ payload = NoPayload /\ spiframe = NoSpiFrame /\ range = NoRange
    /\ conv = NoConv /\ spiop = "init"
    /\ tyid = FrameTy /\ rawid = 0 /\ tagsrc = [kind |-> "byte", val |-> 0]
    /\ tagres = None /\ tagop = "default"
    /\ frame = FrameZeroed /\ view = NoView /\ res = NoRes /\ op = "init"
    /\ stick = NoStick /\ stickres = NoStickRes
    /\ ucal = NoUcal /\ ucalres = NoUcalRes /\ uhist = NoHist
    /\ colstr = <<>> /\ colres = NoColRes
    /\ leval = NoLE /\ leres = NoLE
    /\ aborted = FALSE

SpecPack == InitPack /\ [][PackNext]_vars

\* the stick calibrations: a calibration holding any bytes, or a default one
InitStick ==
    /\ stick \in Sticks
    /\ stickres = NoStickRes
    /\ tyid = FrameTy /\ rawid = 0 /\ tagsrc = [kind |-> "byte", val |-> 0]
    /\ tagres = None /\ tagop = "default"
    /\ frame = FrameZeroed /\ view = NoView /\ res = NoRes /\ op = "init"
    /\ payload = NoPayload /\ spiframe = NoSpiFrame /\ range = NoRange
    /\ conv = NoConv /\ spiop = "init"
    /\ coord = <<0, 0>> /\ packed = <<0, 0, 0>> /\ unpacked = <<0, 0>>
    /\ packop = "init"
    /\ ucal = NoUcal /\ ucalres = NoUcalRes /\ uhist = NoHist
    /\ colstr = <<>> /\ colres = NoColRes
    /\ leval = NoLE /\ leres = NoLE
    /\ aborted = FALSE

SpecStick == InitStick /\ [][StickNext]_vars

\* the user calibration wrappers: a wrapper holding any magic and
\* calibration, as read from the flash
InitUser ==
    /\ ucal \in UserWrappers
    /\ ucalres = NoUcalRes
    /\ uhist = NoHist
    /\ tyid = FrameTy /\ rawid = 0 /\ tagsrc = [kind |-> "byte", val |-> 0]
    /\ tagres = None /\ tagop = "default"
    /\ frame = FrameZeroed /\ view = NoView /\ res = NoRes /\ op = "init"
    /\ payload = NoPayload /\ spiframe = NoSpiFrame /\ range = NoRange
    /\ conv = NoConv /\ spiop = "init"
    /\ coord = <<0, 0>> /\ packed = <<0, 0, 0>> /\ unpacked = <<0, 0>>
    /\ packop = "init"
    /\ stick = NoStick /\ stickres = NoStickRes
    /\ colstr = <<>> /\ colres = NoColRes
    /\ leval = NoLE /\ leres = NoLE
    /\ aborted = FALSE

SpecUser == InitUser /\ [][UserNext]_vars

\* the colors: a string to parse
InitColor ==
    /\ colstr \in ColorStrings
    /\ colres = NoColRes
    /\ tyid = FrameTy /\ rawid = 0 /\ tagsrc = [kind |-> "byte", val |-> 0]
    /\ tagres = None /\ tagop = "default"
    /\ frame = FrameZeroed /\ view = NoView /\ res = NoRes /\ op = "init"
    /\ payload = NoPayload /\ spiframe = NoSpiFrame /\ range = NoRange
    /\ conv = NoConv /\ spiop = "init"
    /\ coord = <<0, 0>> /\ packed = <<0, 0, 0>> /\ unpacked = <<0, 0>>
    /\ packop = "init"
    /\ stick = NoStick /\ stickres = NoStickRes
    /\ ucal = NoUcal /\ ucalres = NoUcalRes /\ uhist = NoHist
    /\ leval = NoLE /\ leres = NoLE
    /\ aborted = FALSE

SpecColor == InitColor /\ [][ColorNext]_vars

\* the little-endian scalars: an integer to wrap, or a wrapper holding any bytes
InitLE ==
    /\ leval \in LEInts \cup LEWrappers
    /\ leres = NoLE
    /\ tyid = FrameTy /\ rawid = 0 /\ tagsrc = [kind |-> "byte", val |-> 0]
    /\ tagres = None /\ tagop = "default"
    /\ frame = FrameZeroed /\ view = NoView /\ res = NoRes /\ op = "init"
    /\ payload = NoPayload /\ spiframe = NoSpiFrame /\ range = NoRange
    /\ conv = NoConv /\ spiop = "init"
    /\ coord = <<0, 0>> /\ packed = <<0, 0, 0>> /\ unpacked = <<0, 0>>
    /\ packop = "init"
    /\ stick = NoStick /\ stickres = NoStickRes
    /\ ucal = NoUcal /\ ucalres = NoUcalRes /\ uhist = NoHist
    /\ colstr = <<>> /\ colres = NoColRes
    /\ aborted = FALSE

SpecLE == InitLE /\ [][LENext]_vars

(***************************************************************************)
(* Claims about the tag wrapper and the generated frames.                  *)
(***************************************************************************)
\* the bytes that are the value of some id of the enumeration
DiscValues(ty) == {Enum(ty)[k].disc : k \in 1..Len(Enum(ty))}

\* C1: a per-variant accessor (get or get_mut) never aborts; it returns the
\* payload when the tag byte is the value of that variant's id and None for
\* every other tag byte, those of no id included.
C1_AccessorTotal ==
    op \in {"get", "get_mut"} =>
        /\ ~aborted
        /\ res.r.some <=> (frame.id = DiscOf(FrameTy, res.v))
        /\ res.r.some => res.r.val = [k \in 1..VarSize(res.v) |-> frame.u[k]]

\* C2: frame -> view fails exactly when the tag byte is the value of no
\* declared case, the error value is the frame that was passed in, byte for
\* byte; otherwise it succeeds with the case of that tag carrying the frame's
\* payload.  It never aborts.
C2_TryFromErrIsOriginal ==
    op = "try_from" =>
        /\ ~aborted
        /\ res.r.ok <=> (frame.id \in DiscValues(FrameTy))
        /\ ~res.r.ok => res.r.frame = frame
        /\ res.r.ok =>
             /\ res.r.view.id \in Ids(FrameTy)
             /\ DiscOf(FrameTy, res.r.view.id) = frame.id
             /\ res.r.view.data = [k \in 1..VarSize(res.r.view.id) |-> frame.u[k]]

\* an unrecognised frame with non-zero headers and payload came back as the error
C2_Witness ==
    /\ op = "try_from"
    /\ ~res.r.ok
    /\ frame.id = 50
    /\ frame.pre # 0 /\ frame.post # 0 /\ frame.u[UnionSize] # 0

\* C3: id -> RawId -> id gives Some(id) for every id of both enumerations; a
\* byte that is the value of no id gives None, and the RawId still holds it.
C3_TagRoundTrip ==
    tagop = "try_into" =>
        /\ ~aborted
        /\ tagsrc.kind = "id" => tagres = Some(tagsrc.val)
        /\ (tagsrc.kind = "byte" /\ tagsrc.val \notin DiscValues(tyid)) =>
             (tagres = None /\ rawid = tagsrc.val)

\* the first id of SubcommandId (value 0) went through the round trip
C3_Witness ==
    /\ tagop = "try_into"
    /\ tyid = "SubcommandId"
    /\ tagsrc.kind = "id"
    /\ tagsrc.val = "GetOnlyControllerState"
    /\ tagres.some

\* C4 as stated: frame -> view -> frame gives a frame that decodes back to the
\* same payload and whose header fields equal those of the first frame.
C4_RoundTripKeepsHeaders ==
    op = "round_trip" =>
        /\ TryFrom(res.r) = TryFrom(frame)
        /\ res.r.pre = frame.pre
        /\ res.r.post = frame.post

\* C4 amended: frame -> view -> frame gives a frame that decodes back to the
\* same payload; its header fields are the default (zero), whatever those of
\* the first frame were.
C4_RoundTripZeroHeaders ==
    op = "round_trip" =>
        /\ ~aborted
        /\ TryFrom(res.r) = TryFrom(frame)
        /\ TryFrom(res.r).ok
        /\ res.r.id = frame.id
        /\ res.r.pre = 0
        /\ res.r.post = 0

\* a frame with non-zero headers and a one-byte variant went through the round trip
C4_Witness ==
    /\ op = "round_trip"
    /\ frame.pre # 0 /\ frame.post # 0
    /\ VarSize(res.v.id) < UnionSize
    /\ res.r.u[UnionSize] # frame.u[UnionSize]

\* C5: view -> frame succeeds for every case; the frame's tag is the value of
\* the case's id, its payload region starts with the carried payload, and both
\* header fields are zero.
C5_FromViewTotal ==
    /\ (view # NoView /\ ~aborted) => ENABLED FrameFromView
    /\ op = "from" =>
         /\ ~aborted
         /\ res.r.id = DiscOf(FrameTy, view.id)
         /\ [k \in 1..VarSize(view.id) |-> res.r.u[k]] = view.data
         /\ res.r.pre = 0
         /\ res.r.post = 0

\* the last declared case, with a non-zero payload, was converted
C5_Witness ==
    /\ op = "from"
    /\ view.id = "StandardFullMCU"
    /\ view.data[1] # 0
    /\ res.r.id = 49

(***************************************************************************)
(* Claims about the SPI transaction codec.                                 *)
(***************************************************************************)
\* C6: an SPIReadResult built from a value of payload type A converts into a
\* different payload type B with a WrongRangeError whose expected is B's range
\* and whose got is A's range, and into A itself with the original value,
\* byte for byte.
C6_RangeMatching ==
    spiop = "try_from" =>
        /\ ~aborted
        /\ payload.ty # conv.ty =>
             /\ ~conv.r.ok
             /\ conv.r.expected = RangeOf(conv.ty)
             /\ conv.r.got = RangeOf(payload.ty)
             /\ conv.r.expected # conv.r.got
        /\ payload.ty = conv.ty =>
             /\ conv.r.ok
             /\ conv.r.val = payload.bytes

\* a factory sensor calibration was read as a user sensor calibration
C6_Witness ==
    /\ spiop = "try_from"
    /\ payload.ty = "SensorCalibration"
    /\ conv.ty = "UserSensorCalibration"
    /\ ~conv.r.ok
    /\ conv.r.expected = SPIRange(32806, 26)
    /\ conv.r.got = SPIRange(24608, 24)

\* C7: every SPIRange obtained from SPIRange::new, from T::range() or from
\* range() on a read request, a write request or a read result has
\* size <= 0x1D, whatever size byte the frame holds.
C7_RangeSizeBounded ==
    range.kind = "range" => range.size <= 29

\* the part of C7 the code keeps: the ranges of SPIRange::new, of T::range()
\* and of range() on a read or write request are within the bound
RangeBoundedExceptReadResult ==
    /\ (spiop \in {"range_new", "type_range"} /\ ~aborted) => range.size <= 29
    /\ (spiop = "frame_range" /\ conv.of # "read_result") => range.size <= 29

\* C8: SPIWriteRequest::new(range, data) aborts whenever data.len() differs
\* from range.size(); when they are equal it returns a request whose range()
\* is range and whose 29-byte buffer holds data followed by zero bytes only.
C8_WriteRequestNew ==
    spiop = "write_new" =>
        /\ Len(conv.data) # conv.range.size => aborted
        /\ Len(conv.data) = conv.range.size =>
             /\ ~aborted
             /\ spiframe.kind = "write_request"
             /\ FrameRange(spiframe) = conv.range
             /\ Len(spiframe.data) = 29
             /\ \A k \in 1..29 :
                  spiframe.data[k] = IF k <= Len(conv.data) THEN conv.data[k] ELSE 0

\* the part of C8 the code keeps: C8 for the ranges with size <= 0x1D
WriteRequestNewWithinBound ==
    (spiop = "write_new" /\ conv.range.size <= 29) => C8_WriteRequestNew

\* the (address, size) pairs of the SPI address map that have a semantic field
KnownDebugRanges ==
    {<<24637, 18>>, <<32784, 22>>, <<24656, 12>>, <<24608, 24>>, <<32806, 26>>,
     <<24576, 16>>, <<24704, 24>>, <<24728, 18>>}

\* C18: Debug formatting of a read result or write request never aborts; it
\* prints a semantic field when (address, size) is a known range of the SPI
\* address map - factory sticks (0x603D, 18), user sticks (0x8010, 22),
\* color (0x6050, 12), IMU calibration (0x6020, 24) and (0x8026, 26), serial
\* number (0x6000, 16), stick parameters (0x6080, 24) and (0x6098, 18) - and
\* address, size and raw bytes for every other pair, whatever the size byte.
C18_DebugKnownRanges ==
    spiop = "debug" =>
        /\ ~aborted
        /\ (<<U32LE_into(spiframe.address), spiframe.size>> \in KnownDebugRanges)
             <=> (conv.fields # <<"address", "size", "raw">>)

\* the part of C18 the code keeps: the frames with size <= 0x1D are
\* formatted without aborting, and the serial number and the two stick
\* parameter blocks print their fields
DebugWithinBound ==
    spiop = "debug" =>
        /\ spiframe.size <= 29 => ~aborted
        /\ (<<U32LE_into(spiframe.address), spiframe.size>>
               \in {<<24576, 16>>, <<24704, 24>>, <<24728, 18>>})
             => conv.fields # <<"address", "size", "raw">>

\* C19: converting a read result into any payload type (UseSPIColors
\* included) never aborts, whatever its address, size and data: it returns
\* the payload when the result's range is the type's range and a
\* WrongRangeError carrying the expected and the actual range otherwise.
C19_TryFromTotal ==
    spiop = "try_from" =>
        /\ ~aborted
        /\ conv.r.ok <=> (FrameRange(spiframe) = RangeOf(conv.ty))
        /\ ~conv.r.ok =>
             /\ conv.r.expected = RangeOf(conv.ty)
             /\ conv.r.got = FrameRange(spiframe)

\* the part of C19 the code keeps: C19 for the types other than UseSPIColors
TryFromTotalButUseSPIColors ==
    (spiop = "try_from" /\ conv.ty # "UseSPIColors") =>
        /\ C19_TryFromTotal
        /\ conv.r.ok => conv.r.val = [k \in 1..SizeOf(conv.ty) |-> spiframe.data[k]]

(***************************************************************************)
(* Claims about the coordinate packing.                                    *)
(***************************************************************************)
\* C9: for every 12-bit pair (x, y), decoding cord_packing(x, y) with the
\* left or the right stick's conv_x / conv_y gives x and y back.
C9_PackingExact ==
    packop \in {"conv_left", "conv_right"} =>
        /\ unpacked[1] = coord[1]
        /\ unpacked[2] = coord[2]

\* a pair with bits in all three nibbles of x went through the right decoder
C9_Witness ==
    /\ packop = "conv_right"
    /\ coord = <<2652, 4095>>
    /\ unpacked = <<2652, 4095>>

\* C10: cord_packing(x, y) is byte0 = x & 0xFF, byte1 = ((x >> 8) & 0xF) |
\* ((y & 0xF) << 4), byte2 = y >> 4, and the decoders return
\* x = ((byte1 & 0xF) << 8) | byte0 and y = (byte2 << 4) | (byte1 >> 4) for
\* every three bytes; stated on the digits of the numbers.
C10_PackingLaw ==
    /\ packop \in {"cord_packing", "conv_left", "conv_right"} =>
         packed = << coord[1] % 256,
                     ((coord[1] \div 256) % 16) + 16 * (coord[2] % 16),
                     coord[2] \div 16 >>
    /\ packop \in {"conv_left", "conv_right", "raw_conv_left", "raw_conv_right"} =>
         unpacked = << (packed[2] % 16) * 256 + packed[1],
                       packed[3] * 16 + (packed[2] \div 16) >>

\* raw bytes with a set high nibble in the middle byte were decoded
C10_Witness ==
    /\ packop = "raw_conv_left"
    /\ packed = <<90, 255, 90>>
    /\ unpacked = <<3930, 1455>>

(***************************************************************************)
(* Claims about the stick calibrations.                                    *)
(***************************************************************************)
\* the two coordinates three packed bytes hold, on the digits of the numbers
DecodeXY(raw) == << (raw[2] % 16) * 256 + raw[1], raw[3] * 16 + (raw[2] \div 16) >>

\* min and max of two integers, on unbounded integers
IntMin(a, b) == IF a <= b THEN a ELSE b
IntMax(a, b) == IF a >= b THEN a ELSE b

\* C11: for every left and right stick calibration, per axis, center() is the
\* decode of the center field, max() is min(center + decode(max), 0xFFF) and
\* min() is max(center - decode(min), 0), as on unbounded integers: no 16-bit
\* sum overflows, and every returned coordinate lies in 0..0xFFF.
C11_StickClamped ==
    LET c == DecodeXY(stick.center)
        hi == DecodeXY(stick.max)
        lo == DecodeXY(stick.min)
    IN  stick # NoStick =>
          /\ ~aborted
          /\ stickres.center.some => stickres.center.val = c
          /\ stickres.max.some =>
               /\ stickres.max.val =
                    <<IntMin(c[1] + hi[1], 4095), IntMin(c[2] + hi[2], 4095)>>
               /\ c[1] + hi[1] <= 65535 /\ c[2] + hi[2] <= 65535
          /\ stickres.min.some =>
               stickres.min.val = <<IntMax(c[1] - lo[1], 0), IntMax(c[2] - lo[2], 0)>>
          /\ \A f \in {"max", "center", "min"} : \A k \in 1..2 :
               stickres[f].some => stickres[f].val[k] \in 0..4095

\* max() saturated on x and min() floored on y, on a right stick calibration
C11_Witness ==
    /\ stick # NoStick
    /\ stick.side = "right"
    /\ stickres.max.some /\ stickres.center.some /\ stickres.min.some
    /\ stickres.center.val = <<2048, 1>>
    /\ stickres.max.val = <<4095, 2>>
    /\ stickres.min.val = <<2047, 0>>
    /\ DecodeXY(stick.max) = <<4095, 1>>
    /\ DecodeXY(stick.min) = <<1, 2048>>

\* C12: on the default left and the default right stick calibration,
\* min < center < max, strictly, on both axes.
C12_DefaultOrdering ==
    (/\ stick \in {Left_default, Right_default}
     /\ stickres.max.some /\ stickres.center.some /\ stickres.min.some) =>
        \A k \in 1..2 :
            /\ stickres.min.val[k] < stickres.center.val[k]
            /\ stickres.center.val[k] < stickres.max.val[k]

\* max, center and min of the default left calibration were computed
C12_Witness ==
    /\ stick = Left_default
    /\ stickres.min.some /\ stickres.min.val = <<680, 1148>>
    /\ stickres.center.some /\ stickres.center.val = <<1951, 2208>>
    /\ stickres.max.some /\ stickres.max.val = <<3247, 3353>>

\* C20: for every left and right stick calibration, whatever its nine bytes,
\* min <= center <= max per axis and all three lie in 0..0xFFF; min < center
\* fails on an axis exactly when the decoded min offset is 0 or the center is
\* 0, and center < max fails exactly when the decoded max offset is 0 or the
\* center is 0xFFF.
C20_StickOrdering ==
    (/\ stick # NoStick
     /\ stickres.max.some /\ stickres.center.some /\ stickres.min.some) =>
        \A k \in 1..2 :
            /\ stickres.min.val[k] <= stickres.center.val[k]
            /\ stickres.center.val[k] <= stickres.max.val[k]
            /\ stickres.min.val[k] \in 0..4095
            /\ stickres.center.val[k] \in 0..4095
            /\ stickres.max.val[k] \in 0..4095
            /\ ~(stickres.min.val[k] < stickres.center.val[k]) <=>
                 (DecodeXY(stick.min)[k] = 0 \/ DecodeXY(stick.center)[k] = 0)
            /\ ~(stickres.center.val[k] < stickres.max.val[k]) <=>
                 (DecodeXY(stick.max)[k] = 0 \/ DecodeXY(stick.center)[k] = 4095)

\* a left calibration whose x axis is not strictly ordered at either end (the
\* center sits at 0xFFF, the min offset is 0) and whose y axis is
C20_Witness ==
    /\ stick # NoStick
    /\ stick.side = "left"
    /\ stickres.max.some /\ stickres.center.some /\ stickres.min.some
    /\ stickres.center.val = <<4095, 2048>>
    /\ stickres.min.val = <<4095, 2047>>
    /\ stickres.max.val = <<4095, 2049>>

(***************************************************************************)
(* Claims about the user calibration wrappers.                             *)
(***************************************************************************)
\* C13: on a left or right user stick wrapper in any state, set_calib(c)
\* leaves the magic 'present', and a following calib() returns Some(c).
C13_SetCalibSetsMagic ==
    /\ ucalres.op = "set_calib" => ucal.magic = <<178, 161>>
    /\ (ucalres.op = "calib" /\ ucalres.prev = "set_calib") =>
         /\ ucalres.ret.some
         /\ ucalres.ret.val = ucalres.arg

\* the part of C13 the code keeps: C13 on the right wrapper
SetCalibSetsMagicRight ==
    ucal.kind = "right" => C13_SetCalibSetsMagic

\* C14: on every user wrapper (left stick, right stick, sensor) and every
\* magic, calib(), and the left wrapper's max, center and min, return a value
\* exactly when the magic is 0xB2, 0xA1, and that value is the embedded
\* calibration (its max, center, min); calib() after reset() is None, and
\* calib() on a default instance is Some(factory default).
C14_UserGating ==
    /\ ucalres.op \in {"calib", "max", "center", "min"} =>
         /\ ~aborted
         /\ ucalres.ret.some <=> (ucal.magic[1] = 178 /\ ucal.magic[2] = 161)
    /\ (ucalres.op = "calib" /\ ucalres.ret.some) => ucalres.ret.val = ucal.calib
    /\ (ucalres.op = "max" /\ ucalres.ret.some) =>
         ucalres.ret.val = Left_max(ucal.calib).val
    /\ (ucalres.op = "center" /\ ucalres.ret.some) =>
         ucalres.ret.val = Left_center(ucal.calib)
    /\ (ucalres.op = "min" /\ ucalres.ret.some) =>
         ucalres.ret.val = Left_min(ucal.calib)
    /\ (ucalres.op = "calib" /\ ucalres.prev = "reset") => ~ucalres.ret.some
    /\ (ucalres.op = "calib" /\ ucalres.prev = "default") =>
         /\ ucalres.ret.some
         /\ ucalres.ret.val = (CASE ucal.kind = "left" -> Left_default
                                 [] ucal.kind = "right" -> Right_default
                                 [] ucal.kind = "sensor" -> SensorCalibration_default)

\* a sensor wrapper whose magic differs from 'present' in its second byte
\* only was asked for its calibration
C14_Witness ==
    /\ ucalres.op = "calib"
    /\ ucal.kind = "sensor"
    /\ ucal.magic = <<178, 255>>
    /\ ~ucalres.ret.some

(***************************************************************************)
(* Claims about the colors.                                                *)
(***************************************************************************)
\* C15: parsing a string of six characters never aborts and returns a Color
\* exactly when all six are hexadecimal digits (0-9, a-f, A-F), a typed
\* parse failure otherwise; parsing a string of another length (counted in
\* characters and in bytes alike) aborts.
C15_ColorParse ==
    colres.op = "from_str" =>
        /\ Len(colstr) = 6 =>
             /\ ~aborted
             /\ colres.r.ok <=> (\A k \in 1..6 : colstr[k] \in HexChars)
             /\ ~colres.r.ok => colres.r.err # "none"
        /\ (Len(colstr) # 6 /\ Len(Utf8(colstr)) # 6) => aborted

\* what the code does: it aborts exactly when the string is not six bytes
\* long or a character straddles the end of a pair; otherwise it returns a
\* Color exactly when each pair is two hex digits, or '+' and one hex digit
ColorParseAsCoded ==
    colres.op = "from_str" =>
        LET b == Utf8(colstr)
            PairOk(k) == /\ colstr[k + 1] \in HexChars
                         /\ colstr[k] \in HexChars \cup {"+"}
        IN  /\ aborted <=> (Len(b) # 6 \/ ~b[3].lead \/ ~b[5].lead)
            /\ (~aborted /\ Len(colstr) = 6) =>
                 (colres.r.ok <=> (PairOk(1) /\ PairOk(3) /\ PairOk(5)))

\* the value of a lowercase hex digit
LowerDigit(c) == CHOOSE d \in 0..15 : LowerHex[d + 1] = c

\* C16: for every string s of six lowercase hex digits, parsing s succeeds,
\* the three bytes are the three two-digit pairs in order, and formatting the
\* result gives "#" followed by s.
C16_ColorRoundTrip ==
    (Len(colstr) = 6 /\ \A k \in 1..6 : colstr[k] \in LowerHexChars) =>
        /\ colres.op \in {"from_str", "to_string"} =>
             /\ ~aborted
             /\ colres.r.ok
             /\ colres.r.val =
                  [k \in 1..3 |-> 16 * LowerDigit(colstr[2 * k - 1]) + LowerDigit(colstr[2 * k])]
        /\ colres.op = "to_string" => colres.out = <<"#">> \o colstr

\* "ff8000" was parsed and formatted as "#ff8000"
C16_Witness ==
    /\ colres.op = "to_string"
    /\ colstr = <<"f", "f", "8", "0", "0", "0">>
    /\ colres.r.val = <<255, 128, 0>>
    /\ colres.out = <<"#", "f", "f", "8", "0", "0", "0">>

(***************************************************************************)
(* Claims about the little-endian scalars.                                 *)
(***************************************************************************)
\* the number of bytes of a wrapper
LEWidth(ty) == IF ty = "U32LE" THEN 4 ELSE 2

\* C17: for every u16, i16 and u32 v, decoding the wrapper built from v gives
\* v, and the wrapper's bytes are those of v (of its two's complement), least
\* significant first; every byte pattern decodes and encodes again to itself.
C17_LERoundTrip ==
    /\ (leres # NoLE /\ leres.op \in {"from", "from_into"}) =>
         LET u == IF leval.v < 0 THEN leval.v + 65536 ELSE leval.v IN
         /\ Len(leres.bytes) = LEWidth(leval.ty)
         /\ \A k \in 1..LEWidth(leval.ty) :
              leres.bytes[k] = (u \div (2 ^ (8 * (k - 1)))) % 256
    /\ (leres # NoLE /\ leres.op = "from_into") => leres.val = leval.v
    /\ (leres # NoLE /\ leres.op = "into_from") => leres.bytes = leval.v
    /\ ~aborted

\* 0x1234 was wrapped as [0x34, 0x12] and read back
C17_Witness ==
    /\ leval.ty = "U16LE" /\ leval.form = "int" /\ leval.v = 4660
    /\ leres # NoLE
    /\ leres.op = "from_into"
    /\ leres.bytes = <<52, 18>>
    /\ leres.val = 4660

(***************************************************************************)
(* Claims about the calls made on a left stick's user wrapper.             *)
(***************************************************************************)
\* the original wording of C21: on a LeftUserStickCalibration, set_magic
\* changes only the two magic bytes and set_calib only the calibration; after
\* any calls, calib() is Some(c) iff the last set_magic was set_magic(true)
\* (or none was made on a default instance), c being the last set_calib's
\* argument (or the factory default); and set_magic(false) followed by
\* set_magic(true) restores whatever calib() returned before the two calls.
C21_ToggleRestoresAnyResult ==
    ucal.kind = "left" =>
      /\ ucalres.op = "set_magic" =>
           /\ ucal.calib = uhist.pre.calib
           /\ ucal.magic = IF uhist.magic = "true" THEN USER_CALIB_MAGIC
                           ELSE USER_NO_CALIB_MAGIC
      /\ ucalres.op = "set_calib" =>
           /\ ucal.magic = uhist.pre.magic
           /\ ucal.calib = uhist.calib.val
      /\ (ucalres.op = "calib" /\ (uhist.magic # "none" \/ uhist.origin = "default")) =>
           /\ ucalres.ret.some <=>
                (uhist.magic = "true" \/ (uhist.magic = "none" /\ uhist.origin = "default"))
           /\ (ucalres.ret.some /\ uhist.calib.some) =>
                ucalres.ret.val = uhist.calib.val
           /\ (ucalres.ret.some /\ ~uhist.calib.some /\ uhist.origin = "default") =>
                ucalres.ret.val = Left_default
      /\ (ucalres.op = "calib" /\ uhist.toggle.stage = "on") =>
           /\ ucalres.ret.some <=> uhist.toggle.before.some
           /\ (ucalres.ret.some /\ uhist.toggle.before.some) =>
                ucalres.ret.val = uhist.toggle.before.val

\* C21: on a LeftUserStickCalibration, set_magic changes only the two magic
\* bytes and set_calib only the calibration; after any calls, calib() is
\* Some(c) iff the last set_magic was set_magic(true) (or none was made on a
\* default instance), c being the last set_calib's argument (or the factory
\* default); and after set_magic(false) followed by set_magic(true), calib()
\* is Some of the embedded calibration, which is what it returned before the
\* two calls whenever it returned a value then.
C21_LeftSetters ==
    ucal.kind = "left" =>
      /\ ucalres.op = "set_magic" =>
           /\ ucal.calib = uhist.pre.calib
           /\ ucal.magic = IF uhist.magic = "true" THEN USER_CALIB_MAGIC
                           ELSE USER_NO_CALIB_MAGIC
      /\ ucalres.op = "set_calib" =>
           /\ ucal.magic = uhist.pre.magic
           /\ ucal.calib = uhist.calib.val
      /\ (ucalres.op = "calib" /\ (uhist.magic # "none" \/ uhist.origin = "default")) =>
           /\ ucalres.ret.some <=>
                (uhist.magic = "true" \/ (uhist.magic = "none" /\ uhist.origin = "default"))
           /\ (ucalres.ret.some /\ uhist.calib.some) =>
                ucalres.ret.val = uhist.calib.val
           /\ (ucalres.ret.some /\ ~uhist.calib.some /\ uhist.origin = "default") =>
                ucalres.ret.val = Left_default
      /\ (ucalres.op = "calib" /\ uhist.toggle.stage = "on") =>
           /\ ucalres.ret.some
           /\ ucalres.ret.val = ucal.calib
           /\ uhist.toggle.before.some => ucalres.ret.val = uhist.toggle.before.val

\* a default left wrapper was given another calibration, then set_magic(false)
\* and set_magic(true), and asked for its calibration: the one it was given
C21_Witness ==
    /\ ucal.kind = "left"
    /\ uhist.origin = "default"
    /\ uhist.calib.some
    /\ uhist.toggle.stage = "on"
    /\ uhist.toggle.before.some
    /\ ucalres.op = "calib"
    /\ ucalres.ret.some
    /\ ucalres.ret.val = uhist.calib.val
    /\ ucalres.ret.val # Left_default

====
